---- MODULE Spec2Model ----
(***************************************************************************)
(* react-log-driver 0.6.0: the per-key double buffer (jotai atoms), the    *)
(* sending controller useLoggerSender (a react-query mutation), the simple *)
(* logger useLogger and the orchestrator useLogDriver.                     *)
(*                                                                         *)
(* A hook's functions (log, send, check, jam, drive, ...) are closures of  *)
(* the render that created them: they see the atom values and the          *)
(* mutation state of that render, until the component renders again.      *)
(* A render is therefore an action of its own; atom writes that go through *)
(* a jotai write function (get/set) read the current value of the store.   *)
(***************************************************************************)
EXTENDS Integers, Sequences, FiniteSets, TLC

(***************************************************************************)
(* Bounds of the model                                                     *)
(***************************************************************************)
\* number of log() calls over all instances
MaxLog == 3
\* number of sender.mutate() calls
MaxSends == 2
\* param.pendingSendMax the modelled sending controller is configured with
pendingSendMax == 2
\* number of times the sending controller is mounted
MaxMounts == 2
\* number of recorded calls of functions without effect on the store
MaxCalls == 2

(***************************************************************************)
(* JavaScript values                                                       *)
(***************************************************************************)
Undefined == [t |-> "undefined"]
Null == [t |-> "null"]
Bool(b) == [t |-> "boolean", v |-> b]
Str(s) == [t |-> "string", v |-> s]
Num(n) == [t |-> "number", v |-> n]
BigInt(n) == [t |-> "bigint", v |-> n]
Arr(a) == [t |-> "array", v |-> a]
Obj(o) == [t |-> "object", v |-> o]
\* a function, with the tag Object.prototype.toString gives it, and a Promise
Fn(tag) == [t |-> "function", v |-> tag]
AsyncFn == Fn("AsyncFunction")
SyncFn == Fn("Function")
APromise == [t |-> "promise"]

\* strings are sequences of characters
S_default == <<"d", "e", "f", "a", "u", "l", "t">>
S_unknown == <<"u", "n", "k", "n", "o", "w", "n">>
S_a == <<"a">>
S_ab == <<"a", "b">>
S_objectObject == <<"[", "o", "b", "j", "e", "c", "t", " ", "O", "b", "j", "e", "c", "t", "]">>
S_true == <<"t", "r", "u", "e">>
S_false == <<"f", "a", "l", "s", "e">>

defaultKey == S_default
maxKeyLength == 1024

Min(a, b) == IF a < b THEN a ELSE b

\* String.prototype.slice(0, n)
Slice(s, n) == SubSeq(s, 1, Min(Len(s), n))

\* String.prototype.includes: sub occurs in s as a substring
StrIncludes(s, sub) ==
    \E i \in 0..(Len(s) - Len(sub)) : SubSeq(s, i + 1, i + Len(sub)) = sub

\* Array.prototype.includes on an array of strings
SeqIncludes(arr, x) == \E i \in 1..Len(arr) : arr[i] = x

RECURSIVE JoinStrs(_)
\* Array.prototype.join(',') of an array of strings
JoinStrs(ss) ==
    IF Len(ss) = 0 THEN <<>>
    ELSE IF Len(ss) = 1 THEN ss[1]
    ELSE ss[1] \o <<",">> \o JoinStrs(Tail(ss))

RECURSIVE NumStr(_)
\* the decimal digits of a natural number
NumStr(n) ==
    LET digit == <<"0", "1", "2", "3", "4", "5", "6", "7", "8", "9">>[(n % 10) + 1]
    IN  IF n < 10 THEN <<digit>> ELSE Append(NumStr(n \div 10), digit)

RECURSIVE ToStr(_)
\* the template literal `${x}` / String(x)
ToStr(x) ==
    CASE x.t = "string" -> x.v
      [] x.t = "boolean" -> IF x.v THEN S_true ELSE S_false
      [] x.t \in {"number", "bigint"} -> NumStr(x.v)
      [] x.t = "array" -> JoinStrs([i \in 1..Len(x.v) |->
                              IF x.v[i].t \in {"undefined", "null"} THEN <<>> ELSE ToStr(x.v[i])])
      [] x.t = "object" -> S_objectObject
      [] x.t = "promise" -> <<"[", "o", "b", "j", "e", "c", "t", " ", "P", "r", "o", "m", "i", "s", "e", "]">>
      [] x.t = "function" -> <<"(", ")", "=", ">", "{", "}">>
      [] x.t = "null" -> <<"n", "u", "l", "l">>
      [] OTHER -> <<"u", "n", "d", "e", "f", "i", "n", "e", "d">>

\* isObject: instanceof Object and not an array; a function and a Promise are
isObject(x) == x.t \in {"object", "function", "promise"}

\* the own enumerable properties {...x} copies: those of a plain object
Fields(x) == IF x.t = "object" THEN x.v ELSE <<>>

\* 'name' in x
Has(x, name) == name \in DOMAIN Fields(x)

\* isPromiseOrAsyncFunc: the toString tag is [object Promise] or [object AsyncFunction]
isPromiseOrAsyncFunc(whatever) ==
    \/ whatever.t = "promise"
    \/ whatever.t = "function" /\ whatever.v = "AsyncFunction"

\* sanitizeRawEvent: an object is kept, a primitive becomes {code: primitive}
sanitizeRawEvent(event) ==
    IF isObject(event) THEN event
    ELSE IF event.t \in {"string", "number", "boolean"} THEN Obj([code |-> event])
    ELSE Obj([code |-> Str(S_unknown),
              info |-> IF event.t = "bigint" THEN Str(ToStr(event)) ELSE Null])

\* sanitizeRawKey: the usable string of a provided key
sanitizeRawKey(key) ==
    CASE key.t \in {"string", "number", "bigint", "boolean"} ->
            LET s == Slice(ToStr(key), maxKeyLength)
            IN  IF s = <<>> THEN defaultKey ELSE s
      [] key.t = "array" ->
            Slice(JoinStrs([i \in 1..Len(key.v) |-> ToStr(sanitizeRawEvent(key.v[i]))]),
                  maxKeyLength)
      [] OTHER -> defaultKey

\* === of two values; two distinct objects or arrays are never the same reference
StrictEquals(x, y) ==
    /\ x.t = y.t
    /\ x.t \notin {"object", "array"}
    /\ (x.t \in {"string", "boolean", "number"} => x.v = y.v)

RECURSIVE Dedupe(_)
\* [...new Set(arr)]: the first occurrence of every element, in order
Dedupe(arr) ==
    IF Len(arr) = 0 THEN <<>>
    ELSE LET front == Dedupe(SubSeq(arr, 1, Len(arr) - 1))
             last == arr[Len(arr)]
         IN  IF SeqIncludes(front, last) THEN front ELSE Append(front, last)

Range(arr) == {arr[i] : i \in 1..Len(arr)}

(***************************************************************************)
(* Configuration of the modelled components                                *)
(***************************************************************************)
\* the keys that occur in the model
Keys == {defaultKey, S_a, S_ab}
\* useLoggerSender(senderKey, sendFn, {pendingSendMax}) and useLogger(senderKey)
senderKey == S_a
\* defaultParam.activeSending and defaultParam.prepFn
activeSending == TRUE
prepFn(data) == data
\* the options.keys a useLogDriver instance may be constructed with
DriverOptions == {Undefined, Str(S_ab), Arr(<<Str(S_a), Str(S_ab)>>)}

VARIABLES
    eventLogsAtom,          \* all keys (the registry), an array
    eventLogsPausedAtom,    \* the paused keys, an array
    logDriversAtom,         \* the keys of all log drivers, an array
    eventLogPendingSend,    \* the atom family: atom key -> value (an array, or undefined)
    mutation,               \* the sending controller's mutation observer: status and current mutation
    inflight,               \* the send function invocations that have not settled
    sender,                 \* the sending controller: the closure of its last render
    timer,                  \* the intervals set and not cleared: the mount and its closure
    logger,                 \* the instances without send function that are mounted: the
                            \* simple logger useLogger(senderKey) and the main instance
                            \* useLoggerSender(senderKey, {mainInstance: true})
    driver,                 \* the orchestrator: its options, the closure of its last render,
                            \* and the last drive() or logout() call made
    logged,                 \* number of log() calls made
    sends,                  \* number of mutate() calls made
    delivered,              \* the batches whose send function resolved {success: true}
    thrown,                 \* where a TypeError has been thrown
    calls                   \* the calls of functions without effect on the store, with
                            \* what they returned

vars == <<eventLogsAtom, eventLogsPausedAtom, logDriversAtom, eventLogPendingSend,
          mutation, inflight, sender, timer, logger, driver, logged, sends, delivered,
          thrown, calls>>

storeVars == <<eventLogsAtom, eventLogsPausedAtom, logDriversAtom, eventLogPendingSend>>
mutationVars == <<mutation, inflight, sends, delivered>>

(***************************************************************************)
(* The jotai atoms                                                         *)
(***************************************************************************)
\* the value of an atom of the family: an array, or undefined
Defined(arr) == [def |-> TRUE, v |-> arr]
NoValue == [def |-> FALSE, v |-> <<>>]

\* generateEventLogAtomKey(key, logNormal)
generateEventLogAtomKey_KeyIgnored(key, logNormal) ==
    <<defaultKey, IF logNormal THEN "normal" ELSE "temp">>
generateEventLogAtomKey(key, logNormal) == <<key, IF logNormal THEN "normal" ELSE "temp">>

AtomKeys == {generateEventLogAtomKey(k, n) : k \in Keys, n \in BOOLEAN}

\* eventLogKeyAdderAtom: set(eventLogsAtom, [...new Set([...current, ...keys])])
eventLogKeyAdderAtom(current, keys) == Dedupe(current \o keys)

\* mutant: the keys are appended without new Set
eventLogDriverAtom_NoSet(current, param) ==
    IF param.type = "jam" THEN current \o param.keys ELSE current

\* eventLogDriverAtom, case 'jam': [...new Set([...current, ...param.keys])];
\* param.prevent is not read
eventLogDriverAtom(current, param) ==
    IF param.type = "jam" THEN Dedupe(current \o param.keys) ELSE current

\* mutant: only the active atom of the key is set to []
eventLogClearerAtom_ActiveOnly(store, key) ==
    [store EXCEPT ![generateEventLogAtomKey(key, TRUE)] = Defined(<<>>)]

\* eventLogClearerAtom: both atoms of a non-empty string key are set to []
eventLogClearerAtom(store, key) ==
    IF Len(key) > 0
    THEN [store EXCEPT ![generateEventLogAtomKey(key, TRUE)] = Defined(<<>>),
                       ![generateEventLogAtomKey(key, FALSE)] = Defined(<<>>)]
    ELSE store

RECURSIVE ClearEach(_, _)
\* keys.forEach(eventLogClearerReset)
ClearEach(store, keys) ==
    IF Len(keys) = 0 THEN store
    ELSE ClearEach(eventLogClearerAtom(store, keys[1]), Tail(keys))

\* [...a, ...b] of two atom values throws when one of them is undefined
CanSpread(store, key) ==
    /\ store[generateEventLogAtomKey(key, TRUE)].def
    /\ store[generateEventLogAtomKey(key, FALSE)].def

\* eventLogsGetterAtomFamily for one key: [...normal, ...temp]
eventLogsGetter(store, key) ==
    store[generateEventLogAtomKey(key, TRUE)].v \o store[generateEventLogAtomKey(key, FALSE)].v

(***************************************************************************)
(* useLogDriver                                                            *)
(***************************************************************************)
\* driveTheseKeys of a render that saw logKeys
driveTheseKeys(options, logKeys) ==
    CASE options.t = "undefined" -> IF Len(logKeys) > 0 THEN logKeys ELSE <<defaultKey>>
      [] options.t = "string" ->
            IF Len(options.v) = 0
            THEN (IF Len(logKeys) > 0 THEN logKeys ELSE <<defaultKey>>)
            ELSE <<options.v>>
      [] options.t = "array" -> [i \in 1..Len(options.v) |-> options.v[i].v]
      [] OTHER -> <<defaultKey>>

\* driveTheseKeys.filter(key => !known.includes(key))
missingKeys(drive, known) == SelectSeq(drive, LAMBDA k : ~SeqIncludes(known, k))

\* useReduceToExistingKeysSelector: checkKeys is an array of strings
reduceToExistingKeys(logsState, checkKeys) ==
    LET candidates == <<Str(defaultKey)>> \o
                      [i \in 1..Len(checkKeys) |-> sanitizeRawEvent(Str(checkKeys[i]))]
        existing == SelectSeq(candidates,
                        LAMBDA thisKey : \E i \in 1..Len(logsState) :
                                             StrictEquals(Str(logsState[i]), thisKey))
    IN  [i \in 1..Len(existing) |-> existing[i].v]

\* mutant: jam(true) hands over the keys of this orchestrator only
jamKeys_OwnKeys(d, deactivate) ==
    IF deactivate.t = "boolean" /\ deactivate.v THEN driveTheseKeys(d.options, d.logKeys)
    ELSE <<>>

\* the keys jam() hands to eventLogDriverAtom, computed in the closure d
jamKeys(d, deactivate) ==
    CASE deactivate.t = "boolean" ->
            IF ~deactivate.v THEN <<>>
            ELSE IF Len(d.allLogDriverKeys) > 0 THEN d.allLogDriverKeys ELSE d.logKeys
      [] deactivate.t = "array" ->
            reduceToExistingKeys(d.logKeys,
                [i \in 1..Len(deactivate.v) |-> sanitizeRawKey(deactivate.v[i])])
      [] deactivate.t = "undefined" ->
            reduceToExistingKeys(d.logKeys,
                [i \in 1..Len(d.allLogDriverKeys) |-> sanitizeRawKey(Str(d.allLogDriverKeys[i]))])
      [] OTHER -> reduceToExistingKeys(d.logKeys, <<sanitizeRawKey(deactivate)>>)

\* mutant: an empty argument is filtered with like a list of keys
drivePaused_FiltersAlways(d, unpauseTheseKeys) ==
    SelectSeq(d.eventLogsPaused,
              LAMBDA pausedLog : ~StrIncludes(sanitizeRawKey(unpauseTheseKeys), pausedLog))

\* the array drive() stores, computed in the closure d
drivePaused(d, unpauseTheseKeys) ==
    LET unpause == sanitizeRawKey(unpauseTheseKeys)
    IN  IF Len(unpause) = 0 THEN <<>>
        ELSE SelectSeq(d.eventLogsPaused, LAMBDA pausedLog : ~StrIncludes(unpause, pausedLog))

(***************************************************************************)
(* Event records                                                           *)
(***************************************************************************)
\* timestamp(format), window.location: values the engine computes
EngineValue(what) == [t |-> "engine", v |-> what]

\* {...a, ...b} of two objects' fields
Spread(a, b) == b @@ a

\* addEventMetadata: {metadata: {...user metadata, ...engine fields}, data: null, ...event}
addEventMetadata(event) ==
    LET engine == [time |-> EngineValue("time"), timeUnix |-> EngineValue("unix"),
                   timeISO |-> EngineValue("iso"), path |-> EngineValue("pathname"),
                   href |-> EngineValue("href"), userId |-> Null]
        given == IF Has(event, "metadata") THEN event.v.metadata ELSE Undefined
        metadata == IF given.t = "undefined" THEN engine
                    ELSE IF isObject(given) THEN Spread(Fields(given), engine)
                    ELSE Spread([metadata |-> given], engine)
    IN  Obj(Spread([metadata |-> Obj(metadata), data |-> Null], Fields(event)))

\* the object run() hands to logEvent: {...sanitizeRawEvent(event), ...{info: moreEventInfo}}
\* (typeof moreEventInfo === undefined is never true)
runEvent(event, moreEventInfo) ==
    IF isObject(moreEventInfo)
    THEN Obj(Spread(Fields(sanitizeRawEvent(event)), Fields(moreEventInfo)))
    ELSE Obj(Spread(Fields(sanitizeRawEvent(event)), [info |-> moreEventInfo]))

\* the write of eventLogPendingAdderAtomFamily(atomKey): [...current, record];
\* the caller has checked that the current value can be spread
eventLogPendingAdder(store, atomKey, eventProvided) ==
    [store EXCEPT ![atomKey] =
        Defined(Append(store[atomKey].v, addEventMetadata(sanitizeRawEvent(eventProvided))))]

\* the event of the n-th log() call of the model
Event(n) == Obj([code |-> Num(n)])

(***************************************************************************)
(* Initial state: an empty store, no component rendered yet                *)
(***************************************************************************)
\* the mutation observer useMutation creates when the component mounts
NewObserver == [status |-> "idle", current |-> 0]

\* the last drive() or logout() call of the orchestrator: the function, its
\* argument, for logout() the number of log() calls made before it, for drive()
\* whether keys were paused
Call(fn, arg, at, hadPaused) == [fn |-> fn, arg |-> arg, at |-> at, hadPaused |-> hadPaused]
NoCall == Call("none", Undefined, 0, FALSE)

NoClosure == [eventsNormal |-> <<>>, eventsTemp |-> <<>>, isLoading |-> FALSE]

InitWith(options) ==
    /\ eventLogsAtom = <<>>
    /\ eventLogsPausedAtom = <<>>
    /\ logDriversAtom = <<>>
    /\ eventLogPendingSend = [a \in AtomKeys |-> Defined(<<>>)]
    /\ mutation = NewObserver
    /\ inflight = {}
    /\ sender = [mounted |-> FALSE, crashed |-> FALSE, closure |-> NoClosure, dep |-> <<>>,
                 mount |-> 0]
    /\ timer = {}
    /\ logger = [mounted |-> FALSE, main |-> FALSE]
    /\ \E o \in options :
           driver = [options |-> o, mounted |-> FALSE, crashed |-> FALSE,
                     eventLogsPaused |-> <<>>, logKeys |-> <<>>, allLogDriverKeys |-> <<>>,
                     depKeys |-> <<"none">>, depDriverKeys |-> <<"none">>,
                     last |-> NoCall]
    /\ logged = 0
    /\ sends = 0
    /\ delivered = {}
    /\ thrown = {}
    /\ calls = <<>>

(***************************************************************************)
(* useLoggerSender(senderKey, sendFn, param): the sending main instance    *)
(***************************************************************************)
normalAtom == generateEventLogAtomKey(senderKey, TRUE)
tempAtom == generateEventLogAtomKey(senderKey, FALSE)

\* what a render reads: useAtom(normal), useAtomValue(temp), sender.isLoading
senderClosure(store, mut) ==
    [eventsNormal |-> store[normalAtom].v,
     eventsTemp |-> store[tempAtom].v,
     isLoading |-> mut.status = "loading"]

\* the dependency of the check effect:
\* `${eventsNormal.length}:${events[eventsNormal.length-1]?.time}`
checkDep(c) ==
    LET n == Len(c.eventsNormal)
    IN  <<n, IF n >= 1 /\ "time" \in DOMAIN c.eventsNormal[n].v
             THEN c.eventsNormal[n].v.time ELSE Undefined>>

\* mutant: the guard does not look at sender.isLoading
sendPasses_IgnoresLoading(c, overrideLogic) == overrideLogic \/ activeSending

\* the guard of send(overrideLogic) of a sending main instance, in the closure c
sendPasses(c, overrideLogic) == overrideLogic \/ (activeSending /\ ~c.isLoading)

\* check() in the closure c reaches sender.mutate
checkSends(c) == Len(c.eventsNormal) >= pendingSendMax /\ sendPasses(c, FALSE)

\* sender.mutate(param.prepFn(eventsNormal), {onSuccess}) in the closure c of the
\* mount numbered mount, whose observer had the state mut: a new mutation replaces
\* that observer's current one and the send function is invoked; the observer of
\* an earlier mount is not the one the component renders.
\* by is the caller: the check effect, check(), the interval or send()
Mutate(c, by, mount, mut) ==
    /\ sends < MaxSends
    /\ sends' = sends + 1
    /\ mutation' = IF mount >= sender.mount THEN [status |-> "loading", current |-> sends + 1]
                   ELSE mut
    /\ inflight' = inflight \cup {[id |-> sends + 1, variables |-> prepFn(c.eventsNormal),
                                   eventsTemp |-> c.eventsTemp, by |-> by, mount |-> mount]}
    /\ UNCHANGED delivered

\* a render of the component, with the effects it commits: the key is registered;
\* [...eventsNormal, ...eventsTemp] throws on an undefined atom; the check effect
\* runs when its dependency changed, and on the first render of a mount, which
\* has a new mutation observer and sets an interval on its check()
SenderRender ==
    /\ ~sender.crashed
    /\ ~sender.mounted => sender.mount < MaxMounts
    /\ LET mut == IF sender.mounted THEN mutation ELSE NewObserver
           mount == IF sender.mounted THEN sender.mount ELSE sender.mount + 1
           c == senderClosure(eventLogPendingSend, mut)
           ok == CanSpread(eventLogPendingSend, senderKey)
       IN  /\ sender.mounted => (c # sender.closure \/ ~ok)
           /\ eventLogsAtom' = eventLogKeyAdderAtom(eventLogsAtom, <<senderKey>>)
           /\ IF ~ok
              THEN /\ sender' = [sender EXCEPT !.mounted = FALSE, !.crashed = TRUE]
                   /\ thrown' = thrown \cup {"useLoggerSender"} /\ UNCHANGED calls
                   /\ UNCHANGED <<mutationVars, timer>>
              ELSE /\ sender' = [mounted |-> TRUE, crashed |-> FALSE, closure |-> c,
                                 dep |-> checkDep(c), mount |-> mount]
                   /\ timer' = IF sender.mounted THEN timer
                               ELSE timer \cup {[mount |-> mount, closure |-> c, run |-> 1]}
                   /\ IF checkDep(c) # sender.dep /\ checkSends(c)
                      THEN Mutate(c, "effect", mount, mut)
                      ELSE mutation' = mut /\ UNCHANGED <<inflight, sends, delivered>>
                   /\ UNCHANGED <<thrown, calls>>
    /\ UNCHANGED <<eventLogsPausedAtom, logDriversAtom, eventLogPendingSend, logger, driver,
                   logged>>

\* log(event)(moreEventInfo) of an instance of key whose closure has useNormalLog:
\* run() hands the object to logNormal or logTemp
LogEventAt(key, event, moreEventInfo, useNormalLog) ==
    /\ logged < MaxLog
    /\ logged' = logged + 1
    /\ LET atomKey == generateEventLogAtomKey(key, useNormalLog)
       IN  IF eventLogPendingSend[atomKey].def
           THEN /\ eventLogPendingSend' = eventLogPendingAdder(eventLogPendingSend, atomKey,
                                              runEvent(event, moreEventInfo))
                /\ UNCHANGED <<thrown, calls>>
           ELSE /\ thrown' = thrown \cup {"log"} /\ UNCHANGED calls
                /\ UNCHANGED eventLogPendingSend
    /\ UNCHANGED <<eventLogsAtom, eventLogsPausedAtom, logDriversAtom, mutationVars, sender,
                   timer, logger, driver>>

\* log(Event(n)) of an instance of senderKey, n the number of the call
LogEvent(useNormalLog) == LogEventAt(senderKey, Event(logged + 1), Undefined, useNormalLog)

\* log(event) of the sending main instance: useNormalLog = !!sender && !sender.isLoading
SenderLog ==
    /\ sender.mounted
    /\ LogEvent(~sender.closure.isLoading)

\* send(overrideLogic) of the sending main instance
SenderSend(overrideLogic) ==
    /\ sender.mounted
    /\ IF sendPasses(sender.closure, overrideLogic)
       THEN Mutate(sender.closure, "send", sender.mount, mutation)
       ELSE UNCHANGED mutationVars
    /\ UNCHANGED <<storeVars, sender, timer, logger, driver, logged, thrown, calls>>

\* check() called by the user
SenderCheck ==
    /\ sender.mounted
    /\ IF checkSends(sender.closure)
       THEN Mutate(sender.closure, "check", sender.mount, mutation)
       ELSE UNCHANGED mutationVars
    /\ UNCHANGED <<storeVars, sender, timer, logger, driver, logged, thrown, calls>>

\* the interval t elapses: check() of the render that set it
TimerTick(t) ==
    /\ t \in timer
    /\ IF checkSends(t.closure)
       THEN Mutate(t.closure, "timer", t.mount, mutation)
       ELSE UNCHANGED mutationVars
    /\ UNCHANGED <<storeVars, sender, timer, logger, driver, logged, thrown, calls>>

\* a call of clear() while a send is in flight, with the numbers of the log()
\* calls whose records both buffers held when it was called
Cleared(codes) == [fn |-> "clear", arg |-> codes, result |-> Undefined]

SenderClearInFlight ==
    /\ sender.mounted
    /\ inflight # {}
    /\ Len(calls) < MaxCalls
    /\ calls' = Append(calls,
                   Cleared({r.v.code.v : r \in Range(eventLogPendingSend[normalAtom].v \o
                                                     eventLogPendingSend[tempAtom].v)}))
    /\ eventLogPendingSend' = [eventLogPendingSend EXCEPT ![normalAtom] = Defined(<<>>),
                                                          ![tempAtom] = Defined(<<>>)]
    /\ UNCHANGED <<eventLogsAtom, eventLogsPausedAtom, logDriversAtom, mutationVars, sender,
                   timer, logger, driver, logged, thrown>>

\* React runs the effects of the mount render of the same instance once more
\* (as StrictMode does after the mount) before any re-render: the cleanup is
\* clearInterval(intervalId) with intervalId === null and clears nothing, check()
\* runs again, and the interval effect, whose closure still has intervalId ===
\* null, sets a second interval
SenderEffectRerun ==
    /\ sender.mounted
    /\ \E t \in timer :
          /\ t.mount = sender.mount
          /\ t.run = 1
          /\ t.closure = sender.closure
          /\ [t EXCEPT !.run = 2] \notin timer
          /\ timer' = timer \cup {[t EXCEPT !.run = 2]}
          /\ IF checkSends(t.closure)
             THEN Mutate(t.closure, "effect", t.mount, mutation)
             ELSE UNCHANGED mutationVars
    /\ UNCHANGED <<storeVars, sender, logger, driver, logged, thrown, calls>>

\* the component unmounts: the cleanup of the interval effect is the one of the
\* first render, clearInterval(intervalId) with intervalId === null, which clears
\* no interval
SenderUnmount ==
    /\ sender.mounted
    /\ sender' = [sender EXCEPT !.mounted = FALSE, !.closure = NoClosure, !.dep = <<>>]
    /\ UNCHANGED <<storeVars, mutationVars, timer, logger, driver, logged, thrown, calls>>

\* clear() of the main instance: clearNormal() || clearTemp([])
SenderClear ==
    /\ sender.mounted
    /\ eventLogPendingSend' = [eventLogPendingSend EXCEPT ![normalAtom] = Defined(<<>>),
                                                          ![tempAtom] = Defined(<<>>)]
    /\ UNCHANGED <<eventLogsAtom, eventLogsPausedAtom, logDriversAtom, mutationVars, sender,
                   timer, logger, driver, logged, thrown, calls>>

\* the callbacks given to mutate() run for the observer's current mutation only,
\* and only while the component is subscribed
Observed(m) == m.mount = sender.mount /\ m.id = mutation.current /\ sender.mounted

\* what the send function may resolve with
Accepted == Obj([success |-> Bool(TRUE)])
Refused == Obj([success |-> Bool(FALSE)])
ResolveValues == {Accepted, Refused, Obj([success |-> Num(1)]), Obj([status |-> Num(200)]),
                  Undefined, Null}

\* the truthiness of a value
Truthy(x) ==
    CASE x.t = "boolean" -> x.v
      [] x.t \in {"number", "bigint"} -> x.v # 0
      [] x.t = "string" -> Len(x.v) > 0
      [] x.t \in {"undefined", "null"} -> FALSE
      [] OTHER -> TRUE

\* the parameter pattern ({success}) throws a TypeError on undefined and null
CanDestructure(data) == data.t \notin {"undefined", "null"}

\* the success the pattern ({success}) binds
successOf(data) == IF "success" \in DOMAIN data.v THEN data.v.success ELSE Undefined

\* mutant: the swap is made whatever success is
onSuccess_Unconditional(store, m, data) ==
    [store EXCEPT ![normalAtom] = Defined(m.eventsTemp), ![tempAtom] = NoValue]

\* onSuccess of the closure that called mutate:
\* ({success}) => success && (setEventsNormal(eventsTemp) || clearTemp())
onSuccess(store, m, data) ==
    IF Truthy(successOf(data))
    THEN [store EXCEPT ![normalAtom] = Defined(m.eventsTemp), ![tempAtom] = NoValue]
    ELSE store

\* the send function of invocation m resolves with data; the TypeError of an
\* onSuccess that cannot bind its parameter is caught by the mutation, which
\* ends in the error state
SendResolves(m, data) ==
    /\ m \in inflight
    /\ inflight' = inflight \ {m}
    /\ delivered' = IF CanDestructure(data) /\ Truthy(successOf(data))
                    THEN delivered \cup {[id |-> m.id, variables |-> m.variables]}
                    ELSE delivered
    /\ IF Observed(m)
       THEN IF CanDestructure(data)
            THEN /\ mutation' = [mutation EXCEPT !.status = "success"]
                 /\ eventLogPendingSend' = onSuccess(eventLogPendingSend, m, data)
            ELSE /\ mutation' = [mutation EXCEPT !.status = "error"]
                 /\ UNCHANGED eventLogPendingSend
       ELSE UNCHANGED <<mutation, eventLogPendingSend>>
    /\ UNCHANGED <<eventLogsAtom, eventLogsPausedAtom, logDriversAtom, sender, timer, logger,
                   driver, logged, sends, thrown, calls>>

\* mutant: a rejection empties the active buffer, as a success does
SendRejects_DropsBatch(m) ==
    /\ m \in inflight
    /\ inflight' = inflight \ {m}
    /\ mutation' = IF Observed(m) THEN [mutation EXCEPT !.status = "error"] ELSE mutation
    /\ eventLogPendingSend' = [eventLogPendingSend EXCEPT ![normalAtom] = Defined(<<>>)]
    /\ UNCHANGED <<eventLogsAtom, eventLogsPausedAtom, logDriversAtom, sender, timer, logger,
                   driver, logged, sends, delivered, thrown, calls>>

\* mutant: a rejection is not reported to the observer, which stays loading
SendRejects_StaysLoading(m) ==
    /\ m \in inflight
    /\ inflight' = inflight \ {m}
    /\ UNCHANGED <<storeVars, mutation, sender, timer, logger, driver, logged, sends,
                   delivered, thrown, calls>>

\* the send function of invocation m rejects
SendRejects(m) ==
    /\ m \in inflight
    /\ inflight' = inflight \ {m}
    /\ mutation' = IF Observed(m) THEN [mutation EXCEPT !.status = "error"] ELSE mutation
    /\ UNCHANGED <<storeVars, sender, timer, logger, driver, logged, sends, delivered, thrown, calls>>

(***************************************************************************)
(* useLogger(senderKey): a simple instance                                 *)
(***************************************************************************)
\* the first render registers the key
LoggerRender ==
    /\ ~logger.mounted
    /\ logger' = [logger EXCEPT !.mounted = TRUE]
    /\ eventLogsAtom' = eventLogKeyAdderAtom(eventLogsAtom, <<senderKey>>)
    /\ UNCHANGED <<eventLogsPausedAtom, logDriversAtom, eventLogPendingSend, mutationVars,
                   sender, timer, driver, logged, thrown, calls>>

\* log(event) of the simple instance: sender is null, so useNormalLog is false
LoggerLog ==
    /\ logger.mounted
    /\ LogEvent(FALSE)

\* log(event) and log(event, true)(moreEventInfo) of the simple instance with
\* any raw input; the parameter default makes an undefined event null
LoggerLogWith(event, moreEventInfo) ==
    /\ logger.mounted
    /\ LogEventAt(senderKey, IF event.t = "undefined" THEN Null ELSE event, moreEventInfo,
                  FALSE)

(***************************************************************************)
(* useLogger(otherKey): a simple instance of another key                   *)
(***************************************************************************)
otherKey == S_ab

\* the first render registers the key
OtherLoggerRender ==
    /\ ~SeqIncludes(eventLogsAtom, otherKey)
    /\ eventLogsAtom' = eventLogKeyAdderAtom(eventLogsAtom, <<otherKey>>)
    /\ UNCHANGED <<eventLogsPausedAtom, logDriversAtom, eventLogPendingSend, mutationVars,
                   sender, timer, logger, driver, logged, thrown, calls>>

\* log(event) of that instance: sender is null, so useNormalLog is false
OtherLoggerLog ==
    /\ SeqIncludes(eventLogsAtom, otherKey)
    /\ LogEventAt(otherKey, Event(logged + 1), Undefined, FALSE)

(***************************************************************************)
(* useLoggerSender(senderKey, {mainInstance: true}): a main instance that  *)
(* has no send function; its sender is null                                *)
(***************************************************************************)
\* a record of a call and what it returned
Returned(fn, arg, result) == [fn |-> fn, arg |-> arg, result |-> result]

\* the first render registers the key; [...eventsNormal, ...eventsTemp] throws on
\* an undefined atom
MainRender ==
    /\ ~logger.main
    /\ eventLogsAtom' = eventLogKeyAdderAtom(eventLogsAtom, <<senderKey>>)
    /\ IF CanSpread(eventLogPendingSend, senderKey)
       THEN logger' = [logger EXCEPT !.main = TRUE] /\ UNCHANGED thrown
       ELSE thrown' = thrown \cup {"useLoggerSender"} /\ UNCHANGED logger
    /\ UNCHANGED <<eventLogsPausedAtom, logDriversAtom, eventLogPendingSend, mutationVars,
                   sender, timer, driver, logged, calls>>

\* log(event): sender is null, so useNormalLog is false
MainLog ==
    /\ logger.main
    /\ LogEvent(FALSE)

\* send(useSendFn, prepFn) of the main instance without send function:
\* !isPromiseOrAsyncFunc(useSendFn) ? false : sender.mutate(...), and sender is null
MainSend(useSendFn) ==
    /\ logger.main
    /\ IF isPromiseOrAsyncFunc(useSendFn)
       THEN thrown' = thrown \cup {"send"} /\ UNCHANGED calls
       ELSE /\ Len(calls) < MaxCalls
            /\ calls' = Append(calls, Returned("send", useSendFn, Bool(FALSE)))
            /\ UNCHANGED thrown
    /\ UNCHANGED <<storeVars, mutationVars, sender, timer, logger, driver, logged>>

(***************************************************************************)
(* useLoggerSender(keyOrSendFn, paramOrSendFn, paramObject): what a call   *)
(* makes of its arguments                                                  *)
(***************************************************************************)
defaultParam ==
    [activeSending |-> Bool(TRUE), pendingSendMax |-> Num(5), timeInterval |-> Num(15000),
     prepFn |-> SyncFn]

\* paramProvided: the second argument if isObject, else the third if isObject, else false
paramProvidedOf(paramOrSendFn, paramObject) ==
    IF isObject(paramOrSendFn) THEN paramOrSendFn
    ELSE IF isObject(paramObject) THEN paramObject
    ELSE Bool(FALSE)

\* param: {...defaultParam, ...paramProvided || {}}
paramOf(paramOrSendFn, paramObject) ==
    Obj(Spread(defaultParam, Fields(paramProvidedOf(paramOrSendFn, paramObject))))

\* key: sanitizeRawKey(typeof keyOrSendFn === 'string' ? keyOrSendFn
\*                                                      : `${param.key || ''}` || defaultKey)
keyOf(keyOrSendFn, paramOrSendFn, paramObject) ==
    LET param == paramOf(paramOrSendFn, paramObject)
        given == IF Has(param, "key") /\ Truthy(param.v.key) THEN ToStr(param.v.key) ELSE <<>>
    IN  sanitizeRawKey(IF keyOrSendFn.t = "string" THEN keyOrSendFn
                       ELSE IF given # <<>> THEN Str(given) ELSE Str(defaultKey))

\* sendFn: the first of keyOrSendFn, paramOrSendFn, paramProvided.sendFn that is
\* a Promise or an async function, else undefined
sendFnOf(keyOrSendFn, paramOrSendFn, paramObject) ==
    LET paramProvided == paramProvidedOf(paramOrSendFn, paramObject)
    IN  IF isPromiseOrAsyncFunc(keyOrSendFn) THEN keyOrSendFn
        ELSE IF isPromiseOrAsyncFunc(paramOrSendFn) THEN paramOrSendFn
        ELSE IF /\ Truthy(paramProvided)
                /\ Has(paramProvided, "sendFn")
                /\ isPromiseOrAsyncFunc(paramProvided.v.sendFn)
             THEN paramProvided.v.sendFn
        ELSE Undefined

SENDFN_NOT_A_PROMISE == Obj([code |-> Str(<<"SENDFN_NOT_A_PROMISE">>)])

\* errors: the entry is pushed when the first and the second argument are both
\* functions that are not asynchronous
errorsOf(keyOrSendFn, paramOrSendFn) ==
    IF /\ keyOrSendFn.t = "function" /\ ~isPromiseOrAsyncFunc(keyOrSendFn)
       /\ paramOrSendFn.t = "function" /\ ~isPromiseOrAsyncFunc(paramOrSendFn)
    THEN <<SENDFN_NOT_A_PROMISE>>
    ELSE <<>>

\* mainInstance: (sendFn !== undefined || param.mainInstance) && !param.simpleInstance
mainInstanceOf(keyOrSendFn, paramOrSendFn, paramObject) ==
    LET param == paramOf(paramOrSendFn, paramObject)
    IN  /\ \/ sendFnOf(keyOrSendFn, paramOrSendFn, paramObject) # Undefined
           \/ Has(param, "mainInstance") /\ Truthy(param.v.mainInstance)
        /\ ~Has(param, "simpleInstance") \/ ~Truthy(param.v.simpleInstance)

\* the log function a simple instance returns
LogFn == Fn("log")

\* what the hook returns: the log function if this is not a main instance,
\* else the object {log, check, send, ..., events, errors}
resultOf(keyOrSendFn, paramOrSendFn, paramObject) ==
    IF ~mainInstanceOf(keyOrSendFn, paramOrSendFn, paramObject) THEN LogFn
    ELSE Obj([log |-> LogFn, errors |-> Arr(errorsOf(keyOrSendFn, paramOrSendFn))])

\* a component calls the hook without a Promise or async function among the
\* arguments (sender is null): the key is registered, and a main instance reads
\* its events, which throws on an undefined atom
UseLoggerSender(keyOrSendFn, paramOrSendFn, paramObject) ==
    LET key == keyOf(keyOrSendFn, paramOrSendFn, paramObject)
    IN  /\ sendFnOf(keyOrSendFn, paramOrSendFn, paramObject) = Undefined
        /\ Len(calls) < MaxCalls
        /\ eventLogsAtom' = eventLogKeyAdderAtom(eventLogsAtom, <<key>>)
        /\ IF mainInstanceOf(keyOrSendFn, paramOrSendFn, paramObject)
              /\ ~CanSpread(eventLogPendingSend, key)
           THEN thrown' = thrown \cup {"useLoggerSender"} /\ UNCHANGED calls
           ELSE /\ calls' = Append(calls,
                        Returned("useLoggerSender",
                                 <<keyOrSendFn, paramOrSendFn, paramObject>>,
                                 resultOf(keyOrSendFn, paramOrSendFn, paramObject)))
                /\ UNCHANGED thrown
        /\ UNCHANGED <<eventLogsPausedAtom, logDriversAtom, eventLogPendingSend, mutationVars,
                       sender, timer, logger, driver, logged>>

\* log(event) of an instance a call of the hook returned: sender is null, so
\* useNormalLog is false
InstanceLog ==
    \E i \in 1..Len(calls) :
        /\ calls[i].fn = "useLoggerSender"
        /\ LogEventAt(keyOf(calls[i].arg[1], calls[i].arg[2], calls[i].arg[3]),
                      Event(logged + 1), Undefined, FALSE)

(***************************************************************************)
(* useLogDriver(options): the orchestrator                                 *)
(***************************************************************************)
\* a render with the effects it commits: the atoms are read, the logs getter throws
\* on an undefined atom of a driven key, and the two effects add the missing keys
\* when their dependency (missing.join(',')) changed
DriverRender ==
    /\ ~driver.crashed
    /\ LET keys == driveTheseKeys(driver.options, eventLogsAtom)
           ok == \A i \in 1..Len(keys) : CanSpread(eventLogPendingSend, keys[i])
           missingLogKeys == missingKeys(keys, eventLogsAtom)
           missingLogDriverKeys == missingKeys(keys, logDriversAtom)
       IN  /\ driver.mounted => \/ ~ok
                                \/ driver.eventLogsPaused # eventLogsPausedAtom
                                \/ driver.logKeys # eventLogsAtom
                                \/ driver.allLogDriverKeys # logDriversAtom
           /\ IF ~ok
              THEN /\ driver' = [driver EXCEPT !.mounted = FALSE, !.crashed = TRUE]
                   /\ thrown' = thrown \cup {"useLogDriver"} /\ UNCHANGED calls
                   /\ UNCHANGED <<eventLogsAtom, logDriversAtom>>
              ELSE /\ driver' = [driver EXCEPT !.mounted = TRUE,
                                               !.eventLogsPaused = eventLogsPausedAtom,
                                               !.logKeys = eventLogsAtom,
                                               !.allLogDriverKeys = logDriversAtom,
                                               !.depKeys = JoinStrs(missingLogKeys),
                                               !.depDriverKeys = JoinStrs(missingLogDriverKeys)]
                   /\ eventLogsAtom' =
                          IF JoinStrs(missingLogKeys) # driver.depKeys /\ Len(missingLogKeys) > 0
                          THEN eventLogsAtom \o missingLogKeys ELSE eventLogsAtom
                   /\ logDriversAtom' =
                          IF JoinStrs(missingLogDriverKeys) # driver.depDriverKeys
                             /\ Len(missingLogDriverKeys) > 0
                          THEN logDriversAtom \o missingLogDriverKeys ELSE logDriversAtom
                   /\ UNCHANGED <<thrown, calls>>
    /\ UNCHANGED <<eventLogsPausedAtom, eventLogPendingSend, mutationVars, sender, timer,
                   logger, logged>>

\* what the last render returned as jammed: eventLogsPaused
jammed(d) == d.eventLogsPaused

\* ... and as driving: driveTheseKeys.filter(key => !eventLogsPaused.includes(key))
driving_Unfiltered(d) == driveTheseKeys(d.options, d.logKeys)
driving(d) ==
    SelectSeq(driveTheseKeys(d.options, d.logKeys),
              LAMBDA key : ~SeqIncludes(d.eventLogsPaused, key))

\* a second orchestrator, useLogDriver({keys: otherDriverKeys}), renders: its
\* effects add its missing keys to the registry and to the keys of all drivers
otherDriverKeys == <<defaultKey>>

OtherDriverRender ==
    /\ eventLogsAtom' = eventLogsAtom \o missingKeys(otherDriverKeys, eventLogsAtom)
    /\ logDriversAtom' = logDriversAtom \o missingKeys(otherDriverKeys, logDriversAtom)
    /\ UNCHANGED <<eventLogsPausedAtom, eventLogPendingSend, mutationVars, sender, timer,
                   logger, driver, logged, thrown, calls>>

\* jam(deactivate, prevent)
Jam(deactivate, prevent) ==
    /\ driver.mounted
    /\ eventLogsPausedAtom' =
           eventLogDriverAtom(eventLogsPausedAtom,
               [type |-> "jam", keys |-> jamKeys(driver, deactivate), prevent |-> prevent])
    /\ UNCHANGED <<eventLogsAtom, logDriversAtom, eventLogPendingSend, mutationVars, sender,
                   timer, logger, driver, logged, thrown, calls>>

\* drive(unpauseTheseKeys); no argument is the default []
Drive(unpauseTheseKeys) ==
    /\ driver.mounted
    /\ eventLogsPausedAtom' =
           drivePaused(driver, IF unpauseTheseKeys.t = "undefined" THEN Arr(<<>>)
                               ELSE unpauseTheseKeys)
    /\ driver' = [driver EXCEPT !.last = Call("drive", unpauseTheseKeys, 0,
                                              Len(eventLogsPausedAtom) > 0)]
    /\ UNCHANGED <<eventLogsAtom, logDriversAtom, eventLogPendingSend, mutationVars, sender,
                   timer, logger, logged, thrown, calls>>

\* the store after clear(clearTheseLogs), clearTheseLogs an array of strings
clearStore(d, store, clearTheseLogs) ==
    IF Len(clearTheseLogs) > 0 THEN ClearEach(store, clearTheseLogs)
    ELSE ClearEach(store, driveTheseKeys(d.options, d.logKeys))

\* clear(clearTheseLogs)
Clear(clearTheseLogs) ==
    /\ driver.mounted
    /\ eventLogPendingSend' = clearStore(driver, eventLogPendingSend, clearTheseLogs)
    /\ UNCHANGED <<eventLogsAtom, eventLogsPausedAtom, logDriversAtom, mutationVars, sender,
                   timer, logger, driver, logged, thrown, calls>>

\* logout(unloadAll): sendFn is null, so logout(true) does nothing;
\* logout(false) is jam(true) and clear()
Logout(unloadAll) ==
    /\ driver.mounted
    /\ IF unloadAll
       THEN UNCHANGED <<eventLogsPausedAtom, eventLogPendingSend>>
       ELSE /\ eventLogsPausedAtom' =
                   eventLogDriverAtom(eventLogsPausedAtom,
                       [type |-> "jam", keys |-> jamKeys(driver, Bool(TRUE)),
                        prevent |-> <<"logging", "sending">>])
            /\ eventLogPendingSend' = clearStore(driver, eventLogPendingSend, <<>>)
    /\ driver' = [driver EXCEPT !.last = Call("logout", Bool(unloadAll), logged, FALSE)]
    /\ UNCHANGED <<eventLogsAtom, logDriversAtom, mutationVars, sender, timer, logger,
                   logged, thrown, calls>>

(***************************************************************************)
(* Specifications                                                          *)
(***************************************************************************)
\* the capabilities jam() may be told to prevent
Prevents == {<<"logging", "sending">>, <<"logging">>, <<"sending">>}

\* Spec: the sending controller and the simple logger on one key
Init == InitWith({Undefined})

\* log() calls, renders with the threshold check, timer checks and send completions
NextAuto ==
    \/ SenderRender
    \/ SenderLog
    \/ \E t \in timer : TimerTick(t)
    \/ \E m \in inflight, data \in ResolveValues : SendResolves(m, data)
    \/ \E m \in inflight : SendRejects(m)
    \/ LoggerRender
    \/ LoggerLog

\* ... and the triggers the user calls without override
NextGuarded ==
    \/ NextAuto
    \/ SenderSend(FALSE)
    \/ SenderCheck

\* ... and send(true) and clear()
Next ==
    \/ NextGuarded
    \/ SenderSend(TRUE)
    \/ SenderClear

Spec == Init /\ [][Next]_vars

\* SpecGuarded: no send(true), no clear()
SpecGuarded == Init /\ [][NextGuarded]_vars

\* SpecAuto: nothing but log() calls and the automatic triggers
SpecAuto == Init /\ [][NextAuto]_vars

\* SpecDriver: the orchestrator with every shape of argument, over the buffers the
\* simple logger fills
JamArgs == {Undefined, Bool(TRUE), Bool(FALSE), Str(S_ab), Arr(<<Str(S_a)>>),
            Arr(<<Str(S_a), Str(S_ab)>>)}
DriveArgs == {Undefined, Arr(<<>>), Str(S_a), Str(S_ab), Arr(<<Str(S_a)>>),
              Arr(<<Str(S_a), Str(S_ab)>>)}
ClearArgs == {<<>>, <<S_a>>, <<S_ab>>}

InitDriver == InitWith(DriverOptions)

NextDriver ==
    \/ LoggerRender
    \/ LoggerLog
    \/ DriverRender
    \/ OtherDriverRender
    \/ \E deactivate \in JamArgs, prevent \in Prevents : Jam(deactivate, prevent)
    \/ \E unpauseTheseKeys \in DriveArgs : Drive(unpauseTheseKeys)
    \/ \E clearTheseLogs \in ClearArgs : Clear(clearTheseLogs)
    \/ \E unloadAll \in BOOLEAN : Logout(unloadAll)

SpecDriver == InitDriver /\ [][NextDriver]_vars

\* SpecPause: the triggers and log() calls of the controller while an orchestrator
\* pauses and resumes its key
InitPause == InitWith({Str(S_a)})

NextPause ==
    \/ SenderRender
    \/ SenderLog
    \/ \E overrideLogic \in BOOLEAN : SenderSend(overrideLogic)
    \/ SenderCheck
    \/ \E t \in timer : TimerTick(t)
    \/ LoggerRender
    \/ LoggerLog
    \/ DriverRender
    \/ \E deactivate \in {Bool(TRUE), Arr(<<Str(S_a)>>)}, prevent \in Prevents :
           Jam(deactivate, prevent)
    \/ Drive(Undefined)

SpecPause == InitPause /\ [][NextPause]_vars

\* SpecLifecycle: log() calls and the automatic triggers, while the sending
\* controller unmounts and mounts again
NextLifecycle ==
    \/ NextAuto
    \/ SenderUnmount

SpecLifecycle == Init /\ [][NextLifecycle]_vars

\* SpecClear: clear() of the controller and of the orchestrator, over buffers
\* both instances fill and a send in flight
NextClear ==
    \/ SenderRender
    \/ SenderLog
    \/ SenderSend(FALSE)
    \/ SenderClear
    \/ LoggerRender
    \/ LoggerLog
    \/ DriverRender
    \/ \E clearTheseLogs \in ClearArgs : Clear(clearTheseLogs)

SpecClear == InitDriver /\ [][NextClear]_vars

\* SpecManual: a main instance without send function and a simple logger
SendFnArgs == {Undefined, Null, Str(S_a), SyncFn, AsyncFn}

NextManual ==
    \/ MainRender
    \/ MainLog
    \/ \E useSendFn \in SendFnArgs : MainSend(useSendFn)
    \/ LoggerRender
    \/ LoggerLog

SpecManual == Init /\ [][NextManual]_vars

\* SpecConfig: components call the hook with arguments of every shape but an
\* asynchronous send function, and log through what it returned
KeyOrSendFnArgs == {Undefined, Str(S_a), Str(<<>>), SyncFn}
ParamOrSendFnArgs ==
    {Undefined, SyncFn, Obj([mainInstance |-> Bool(TRUE)]), Obj([sendFn |-> SyncFn]),
     Obj([key |-> Str(S_ab), mainInstance |-> Bool(TRUE), simpleInstance |-> Bool(TRUE)])}
ParamObjectArgs == {Undefined, Obj([mainInstance |-> Bool(TRUE), key |-> Str(S_a)])}

NextConfig ==
    \/ \E keyOrSendFn \in KeyOrSendFnArgs, paramOrSendFn \in ParamOrSendFnArgs,
          paramObject \in ParamObjectArgs :
            UseLoggerSender(keyOrSendFn, paramOrSendFn, paramObject)
    \/ InstanceLog

SpecConfig == Init /\ [][NextConfig]_vars

\* SpecKeys: the controller of senderKey with every trigger, completion and
\* clear, and a simple logger of another key
KeysResolveValues == {Accepted, Refused}

NextKeys ==
    \/ SenderRender
    \/ SenderLog
    \/ SenderSend(FALSE)
    \/ SenderSend(TRUE)
    \/ SenderClear
    \/ \E m \in inflight, data \in KeysResolveValues : SendResolves(m, data)
    \/ \E m \in inflight : SendRejects(m)
    \/ OtherLoggerRender
    \/ OtherLoggerLog

SpecKeys == Init /\ [][NextKeys]_vars

\* SpecEvents: a simple logger is handed raw inputs of every type
RawEvents ==
    {Obj([code |-> Str(S_a)]), Obj([data |-> Num(1)]), Str(S_a), Num(7), Bool(TRUE),
     BigInt(12), Arr(<<>>), Null, Undefined, SyncFn,
     Obj([code |-> Str(S_a), time |-> Num(1)]),
     Obj([code |-> Str(S_a), info |-> Str(S_a)]),
     Obj([code |-> Str(S_a), metadata |-> Obj([timeUnix |-> Num(1), tag |-> Str(S_ab)])])}
MoreEventInfos == {Undefined, Str(S_ab)}

NextEvents ==
    \/ LoggerRender
    \/ \E event \in RawEvents, moreEventInfo \in MoreEventInfos :
            LoggerLogWith(event, moreEventInfo)

SpecEvents == Init /\ [][NextEvents]_vars

\* SpecKey: sanitizeRawKey is applied to raw keys of every type
LongKey == [i \in 1..(maxKeyLength + 1) |-> IF i <= maxKeyLength THEN "x" ELSE "y"]
RawKeys ==
    {Str(<<>>), Str(S_a), Str(LongKey), Num(0), Num(42), Bool(TRUE), Bool(FALSE), BigInt(12),
     Arr(<<>>), Arr(<<Str(S_a), Num(1)>>), Obj([a |-> Num(1)]), Null, Undefined, SyncFn}

\* a call of sanitizeRawKey(key) and what it returned
SanitizeRawKey(key) ==
    /\ Len(calls) < MaxCalls
    /\ calls' = Append(calls, Returned("sanitizeRawKey", key, Str(sanitizeRawKey(key))))
    /\ UNCHANGED <<storeVars, mutationVars, sender, timer, logger, driver, logged, thrown>>

NextKey == \E key \in RawKeys : SanitizeRawKey(key)

SpecKey == Init /\ [][NextKey]_vars

\* SpecStrict: SpecLifecycle where the mount effects may run a second time
NextStrict ==
    \/ NextLifecycle
    \/ SenderEffectRerun

SpecStrict == Init /\ [][NextStrict]_vars

\* SpecRace: clear() is called while a send is in flight
NextRace ==
    \/ SenderRender
    \/ SenderLog
    \/ SenderSend(TRUE)
    \/ SenderClearInFlight
    \/ \E m \in inflight, data \in KeysResolveValues : SendResolves(m, data)
    \/ \E m \in inflight : SendRejects(m)
    \/ LoggerRender
    \/ LoggerLog

SpecRace == Init /\ [][NextRace]_vars

\* SpecLive: log() calls and the automatic triggers with a send function that
\* always resolves {success: true}; renders, interval callbacks and resolutions
\* are scheduled fairly
Ticks == \E t \in timer : TimerTick(t)
Accepts == \E m \in inflight : SendResolves(m, Accepted)

NextLive ==
    \/ SenderRender
    \/ SenderLog
    \/ Ticks
    \/ Accepts
    \/ LoggerRender
    \/ LoggerLog

SpecLive ==
    /\ Init
    /\ [][NextLive]_vars
    /\ WF_vars(SenderRender)
    /\ WF_vars(Ticks)
    /\ WF_vars(Accepts)

\* SpecFair: SpecGuarded where a send function that was invoked settles
Settles == \/ \E m \in inflight, data \in ResolveValues : SendResolves(m, data)
           \/ \E m \in inflight : SendRejects(m)

SpecFair == Init /\ [][NextGuarded]_vars /\ WF_vars(Settles)

\* SpecLogs: an orchestrator of the controller's key beside the controller, the
\* simple logger and the send completions
NextLogs ==
    \/ NextAuto
    \/ DriverRender

SpecLogs == InitPause /\ [][NextLogs]_vars

\* SpecRegistry: everything that touches the key registry, with an orchestrator
\* whose options.keys may name a key twice
RegistryOptions == DriverOptions \cup {Arr(<<Str(S_a), Str(S_a)>>)}

InitRegistry == InitWith(RegistryOptions)

NextRegistry ==
    \/ SenderRender
    \/ SenderUnmount
    \/ LoggerRender
    \/ DriverRender
    \/ OtherDriverRender
    \/ \E deactivate \in JamArgs, prevent \in Prevents : Jam(deactivate, prevent)
    \/ \E unpauseTheseKeys \in DriveArgs : Drive(unpauseTheseKeys)
    \/ \E clearTheseLogs \in ClearArgs : Clear(clearTheseLogs)
    \/ \E unloadAll \in BOOLEAN : Logout(unloadAll)

SpecRegistry == InitRegistry /\ [][NextRegistry]_vars

(***************************************************************************)
(* Properties                                                              *)
(***************************************************************************)
\* readAll(senderKey) is active ++ staging
active == eventLogPendingSend[normalAtom].v
staging == eventLogPendingSend[tempAtom].v

\* the codes of the records of a batch or buffer
Codes(records) == {records[i].v.code.v : i \in 1..Len(records)}
\* how often the record of the n-th log() call occurs in a buffer
Occurrences(n, records) == Cardinality({i \in 1..Len(records) : records[i].v.code.v = n})
\* SenderState(senderKey) is Sending
Sending == mutation.status = "loading"
\* the key of the controller is in the PausedSet
Paused == SeqIncludes(eventLogsPausedAtom, senderKey)
\* the keys an argument of jam() or drive() names
ArgKeys(arg) == IF arg.t = "array" THEN {arg.v[i].v : i \in 1..Len(arg.v)} ELSE {arg.v}

\* C1: without send(true), at most one invocation of the send function has
\* started and not yet settled, in every interleaving of the triggers.
C1_SingleFlight == Cardinality(inflight) <= 1

\* C2: every appended record is present exactly once in active ++ staging or was
\* in a batch whose send resolved successfully; none is lost, and none is in two
\* successful batches.
C2_NoLossNoDuplication ==
    "log" \notin thrown =>
        \A n \in 1..logged :
            LET batches == {d \in delivered : n \in Codes(d.variables)}
            IN  /\ Occurrences(n, active \o staging) <= 1
                /\ Cardinality(batches) <= 1
                /\ Occurrences(n, active \o staging) = 1 \/ batches # {}

\* C3: when a send resolves with {success: true}, the active buffer becomes exactly
\* the contents of staging at completion time, and the records of the sent batch
\* are in no buffer.
C3_SuccessSwap ==
    [][\A m \in inflight :
          SendResolves(m, Accepted) =>
              /\ eventLogPendingSend'[normalAtom] = Defined(staging)
              /\ Codes(m.variables) \cap Codes(active' \o staging') = {}]_vars

\* C4: a log() call through any instance appends to staging if and only if a send
\* is in flight at the moment of the call, and to active otherwise.
C4_AppendRouting ==
    [][(logged' = logged + 1 /\ eventLogPendingSend' # eventLogPendingSend) =>
          IF Sending
          THEN staging' # staging /\ active' = active
          ELSE active' # active /\ staging' = staging]_vars

\* C5 as claimed: when the send function rejects, both buffers are as they were
\* and SenderState is Idle.
C5_RejectLeavesIdle ==
    [][\A m \in inflight :
          SendRejects(m) =>
              /\ eventLogPendingSend' = eventLogPendingSend
              /\ mutation'.status # "loading"]_vars

\* C5 as amended: when a send fails (the invocation leaves the invocations in
\* flight and no batch is delivered), both buffers are as they were, and
\* SenderState is Idle if the invocation was the one the controller observes
\* (its most recent one, the controller mounted).
C5_FailurePreservesBuffers ==
    [][\A m \in inflight :
          (inflight' = inflight \ {m} /\ delivered' = delivered) =>
              /\ eventLogPendingSend' = eventLogPendingSend
              /\ Observed(m) => mutation'.status \in {"error", "success"}]_vars

\* C5 witness: the observed send of a full batch was rejected; the batch is still
\* in the active buffer and the controller is idle.
C5_Witness ==
    /\ mutation.status = "error"
    /\ inflight = {}
    /\ delivered = {}
    /\ Len(active) >= pendingSendMax

\* the closure of the controller is the one a render would create now
Rendered == sender.mounted /\ sender.closure = senderClosure(eventLogPendingSend, mutation)

\* C6: with log() calls only, one automatic send is initiated once the active
\* buffer has reached pendingSendMax, with the buffer as its batch (exactly
\* pendingSendMax records when that many were appended), and the appends made
\* while it is in flight initiate no further send.
C6_ThresholdFiresOnce ==
    /\ Cardinality(inflight) <= 1
    /\ \A m \in inflight :
          /\ m.by = "effect"
          /\ Len(m.variables) >= pendingSendMax
          /\ logged = pendingSendMax => Len(m.variables) = pendingSendMax
          /\ sends = 1 => SubSeq(active, 1, Len(m.variables)) = m.variables
    /\ (Rendered /\ sends = Cardinality(inflight) /\ Len(active) >= pendingSendMax)
          => Cardinality(inflight) = 1

\* C6 witness: the one threshold send of pendingSendMax records is in flight, the
\* controller has rendered, and a record was appended after it started.
C6_Witness ==
    /\ Rendered
    /\ sends = 1
    /\ \E m \in inflight : m.by = "effect" /\ Len(m.variables) = pendingSendMax
    /\ Len(active \o staging) > pendingSendMax

\* C7: once the key is in the PausedSet, no trigger (threshold check, timer check,
\* send(), send(true)) invokes the send function.
C7_PausedNeverSends == [][Paused => inflight' \subseteq inflight]_vars

\* C8: once the key is in the PausedSet, a log() call through any instance leaves
\* both buffers of the key unchanged.
C8_PausedNeverLogs ==
    [][(Paused /\ logged' = logged + 1) => eventLogPendingSend' = eventLogPendingSend]_vars

\* C9: jam with an explicit key list L changes the PausedSet to exactly
\* PausedSet \cup (L \cap KeyRegistry).
C9_JamList ==
    [][\A deactivate \in {a \in JamArgs : a.t = "array"}, prevent \in Prevents :
          (Jam(deactivate, prevent) /\ driver.logKeys = eventLogsAtom) =>
              Range(eventLogsPausedAtom') =
                  Range(eventLogsPausedAtom) \cup (ArgKeys(deactivate) \cap Range(eventLogsAtom))]_vars

\* C10: drive with a non-empty key list L, or a single key, changes the PausedSet
\* to exactly PausedSet \ L.
C10_DriveList ==
    [][\A unpause \in {a \in DriveArgs : a.t = "string" \/ (a.t = "array" /\ Len(a.v) > 0)} :
          (Drive(unpause) /\ driver.eventLogsPaused = eventLogsPausedAtom) =>
              Range(eventLogsPausedAtom') = Range(eventLogsPausedAtom) \ ArgKeys(unpause)]_vars

\* drive() and drive([])
NoKeys == {Undefined, Arr(<<>>)}

\* C11: drive() with no argument, or with an empty list, leaves the PausedSet
\* empty, whatever keys were paused before and whatever the orchestrator's last
\* render saw.
C11_DriveAll == [][\A unpause \in NoKeys : Drive(unpause) => eventLogsPausedAtom' = <<>>]_vars

\* C11 witness: the last drive call had no keys, keys were paused when it was
\* made, and the PausedSet is empty.
C11_Witness ==
    /\ driver.last.fn = "drive"
    /\ driver.last.arg \in NoKeys
    /\ driver.last.hadPaused
    /\ eventLogsPausedAtom = <<>>

\* the interval the mounted controller has set
OwnTimers == {t \in timer : t.mount = sender.mount}

\* C12: while the controller is mounted and its key is Idle, not paused and has a
\* non-empty active buffer, the callback of the controller's interval, run at
\* this moment, initiates a send whose batch is the active buffer, also when the
\* buffer holds fewer than pendingSendMax records.
C12_TimerDispatch ==
    (sender.mounted /\ ~Sending /\ ~Paused /\ Len(active) > 0) =>
        \A t \in OwnTimers :
            /\ checkSends(t.closure)
            /\ prepFn(t.closure.eventsNormal) = active

\* the interval t was set by a mount of the controller that has been unmounted
Disposed(t) == t.mount < sender.mount \/ ~sender.mounted

\* C13: once the controller is unmounted, the interval it had set is cleared: its
\* callback initiates no send in any later state.
C13_TimerTeardown ==
    [][\A t \in timer : (Disposed(t) /\ TimerTick(t)) => inflight' = inflight]_vars

\* C14: whichever trigger initiates a send (threshold check, interval, send()),
\* the batch handed to the send function is prepFn of the active buffer as it is
\* at that moment.
C14_BatchSnapshot ==
    [][\A m \in inflight' \ inflight : m.variables = prepFn(active)]_vars

\* the resolved value has success === true
StrictSuccess(data) ==
    /\ CanDestructure(data)
    /\ successOf(data).t = "boolean"
    /\ successOf(data).v

\* the resolved value has a truthy success
TruthySuccess(data) == CanDestructure(data) /\ Truthy(successOf(data))

\* C15 as claimed: when the send function resolves with a value that does not
\* have success === true, both buffers are as they were, SenderState is Idle and
\* nothing is thrown.
C15_StrictSuccess ==
    [][\A m \in inflight, data \in ResolveValues :
          (SendResolves(m, data) /\ ~StrictSuccess(data)) =>
              /\ eventLogPendingSend' = eventLogPendingSend
              /\ mutation'.status # "loading"
              /\ thrown' = thrown]_vars

\* C15 as amended: when the send function resolves with a value whose success is
\* not truthy (missing, false, or the value is undefined or null), both
\* buffers are as they were and nothing is thrown, and SenderState is Idle if the
\* invocation was the one the controller observes. (A step that settles m
\* either has this outcome or is not a resolution of m with such a value.)
C15_FalsySuccessIsFailure ==
    [][\A m \in inflight :
          inflight' = inflight \ {m} =>
              \/ /\ eventLogPendingSend' = eventLogPendingSend
                 /\ Observed(m) => mutation'.status # "loading"
                 /\ thrown' = thrown
              \/ \A data \in ResolveValues : ~TruthySuccess(data) => ~SendResolves(m, data)]_vars

\* C15 witness: the observed send of a full batch resolved without a truthy
\* success: nothing was delivered, the batch is still in the active buffer and
\* the controller is idle.
C15_Witness ==
    /\ mutation.status = "success"
    /\ inflight = {}
    /\ delivered = {}
    /\ Len(active) >= pendingSendMax

\* C16: a trigger without override (send(), check()) on a key whose SenderState
\* is Sending starts no invocation of the send function and leaves both buffers
\* as they are, however often it is repeated.
C16_GuardIdempotence ==
    [][(Sending /\ (SenderSend(FALSE) \/ SenderCheck)) =>
          /\ inflight' = inflight
          /\ eventLogPendingSend' = eventLogPendingSend]_vars

\* the log() calls, by number, whose records a buffer lists, in the buffer's order
CodeSeq(records) == [i \in 1..Len(records) |-> records[i].v.code.v]

\* C17: as long as no send has been initiated, readAll = active ++ staging lists
\* the records of the log() calls made through the controller and the simple
\* logger in the order of the calls, none dropped, duplicated or reordered.
C17_ReadAllOrder == sends = 0 => CodeSeq(active \o staging) = [n \in 1..logged |-> n]

\* the keys clear(clearTheseLogs) of the orchestrator is to clear: the listed
\* ones, or with no argument the keys the orchestrator returns as its keys
ClearedKeys(clearTheseLogs) ==
    IF Len(clearTheseLogs) > 0 THEN Range(clearTheseLogs)
    ELSE Range(driveTheseKeys(driver.options, driver.logKeys))

\* a step empties both buffers of the keys and leaves every other buffer, the
\* SenderState, the KeyRegistry and the PausedSet as they are
ClearsExactly(keys) ==
    /\ \A k \in keys :
          /\ eventLogPendingSend'[generateEventLogAtomKey(k, TRUE)] = Defined(<<>>)
          /\ eventLogPendingSend'[generateEventLogAtomKey(k, FALSE)] = Defined(<<>>)
    /\ \A a \in AtomKeys : a[1] \notin keys => eventLogPendingSend'[a] = eventLogPendingSend[a]
    /\ UNCHANGED <<mutation, inflight, eventLogsAtom, eventLogsPausedAtom>>

\* C18: clear() of the controller empties both buffers of its key, clear of the
\* orchestrator those of the listed keys (with no argument, of its keys), and
\* either leaves unchanged the SenderState, the KeyRegistry, the PausedSet and
\* the buffers of every other key.
C18_ClearFrames ==
    [][/\ SenderClear => ClearsExactly({senderKey})
       /\ \A clearTheseLogs \in ClearArgs :
              Clear(clearTheseLogs) => ClearsExactly(ClearedKeys(clearTheseLogs))]_vars

\* C18 witness: records were appended and a send is in flight, and both buffers
\* of the key are empty (no send has completed: they were cleared).
C18_Witness ==
    /\ logged > 0
    /\ Sending
    /\ inflight # {}
    /\ driver.mounted
    /\ delivered = {}
    /\ eventLogPendingSend[normalAtom] = Defined(<<>>)
    /\ eventLogPendingSend[tempAtom] = Defined(<<>>)

\* the keys the orchestrator returns as its keys
TrackedKeys == Range(driveTheseKeys(driver.options, driver.logKeys))

\* both buffers of every key of the orchestrator are empty
TrackedBuffersEmpty ==
    \A k \in TrackedKeys :
        /\ eventLogPendingSend[generateEventLogAtomKey(k, TRUE)] = Defined(<<>>)
        /\ eventLogPendingSend[generateEventLogAtomKey(k, FALSE)] = Defined(<<>>)

\* the last call of logout was logout(unloadAll), and no log() call was made since
LoggedOut(unloadAll) ==
    /\ driver.last.fn = "logout"
    /\ driver.last.arg = Bool(unloadAll)
    /\ driver.last.at = logged

\* C19: after logout(true), and until the next log() call, the active and the
\* staging buffer of every key of the orchestrator are empty.
C19_LogoutDrains == LoggedOut(TRUE) => TrackedBuffersEmpty

\* C20: after logout() / logout(false) every key of the orchestrator is in the
\* PausedSet, both buffers of every such key are empty, and the call has invoked
\* no send function.
C20_LogoutJamsAndClears ==
    [][Logout(FALSE) =>
          /\ TrackedKeys \subseteq Range(eventLogsPausedAtom')
          /\ TrackedBuffersEmpty'
          /\ inflight' = inflight]_vars

\* the orchestrator has rendered since the atoms it reads last changed
Settled ==
    /\ driver.mounted
    /\ driver.logKeys = eventLogsAtom
    /\ driver.allLogDriverKeys = logDriversAtom
    /\ driver.eventLogsPaused = eventLogsPausedAtom

\* C21 as claimed: jam(true) adds to the PausedSet exactly the keys of this
\* orchestrator, and jam(false) leaves the PausedSet unchanged.
C21_JamTrueOwnKeys ==
    [][\A prevent \in Prevents :
          /\ (Jam(Bool(TRUE), prevent) /\ Settled) =>
                 Range(eventLogsPausedAtom') = Range(eventLogsPausedAtom) \cup TrackedKeys
          /\ Jam(Bool(FALSE), prevent) => eventLogsPausedAtom' = eventLogsPausedAtom]_vars

\* the keys of all orchestrators as the last render read them, or every
\* registered key when no orchestrator key is recorded
AllDriverKeys ==
    IF Len(driver.allLogDriverKeys) > 0 THEN Range(driver.allLogDriverKeys)
    ELSE Range(driver.logKeys)

\* C21 as amended: jam(true) adds to the PausedSet exactly the keys of all
\* orchestrator instances as this instance's last render read them (every
\* registered key when there is none), and jam(false) leaves the PausedSet
\* unchanged.
C21_JamTrueAllDriverKeys ==
    [][\A prevent \in Prevents :
          /\ Jam(Bool(TRUE), prevent) =>
                 Range(eventLogsPausedAtom') = Range(eventLogsPausedAtom) \cup AllDriverKeys
          /\ Jam(Bool(FALSE), prevent) => eventLogsPausedAtom' = eventLogsPausedAtom]_vars

\* C21 witness: the keys of both orchestrators are paused, one of them a key
\* that only the other orchestrator drives.
C21_Witness ==
    /\ Settled
    /\ TrackedKeys # {}
    /\ Range(otherDriverKeys) \cap TrackedKeys = {}
    /\ Range(eventLogsPausedAtom) = TrackedKeys \cup Range(otherDriverKeys)

\* C22: on a main instance without send function, send(asyncFn, prepFn) initiates
\* a send of the active buffer through asyncFn, send(x) with x not an async
\* function returns false, and neither throws.
C22_OneOffSend ==
    [][\A useSendFn \in SendFnArgs :
          MainSend(useSendFn) =>
              /\ thrown' = thrown
              /\ isPromiseOrAsyncFunc(useSendFn) =>
                     \E m \in inflight' \ inflight : m.variables = prepFn(active)
              /\ ~isPromiseOrAsyncFunc(useSendFn) =>
                     calls' = Append(calls, Returned("send", useSendFn, Bool(FALSE)))]_vars

\* C23: send(true) initiates a send of the current active buffer also when
\* SenderState is Sending or activeSending is false, and send(false) in either of
\* those situations initiates nothing.
C23_OverrideBypass ==
    [][/\ SenderSend(TRUE) => \E m \in inflight' \ inflight : m.variables = prepFn(active)
       /\ ((Sending \/ ~activeSending) /\ SenderSend(FALSE)) => inflight' = inflight]_vars

\* a function that is not asynchronous is among the first two arguments
SyncSendFnGiven(arg) ==
    \/ arg[1].t = "function" /\ ~isPromiseOrAsyncFunc(arg[1])
    \/ arg[2].t = "function" /\ ~isPromiseOrAsyncFunc(arg[2])

\* C24: whenever a function that is not asynchronous is supplied to
\* useLoggerSender as the send function, in the first or the second argument,
\* the caller receives an errors list that holds a SENDFN_NOT_A_PROMISE entry,
\* nothing is thrown, and no send is ever initiated.
C24_ConfigErrorReported ==
    /\ \A i \in 1..Len(calls) :
          (calls[i].fn = "useLoggerSender" /\ SyncSendFnGiven(calls[i].arg)) =>
              /\ Has(calls[i].result, "errors")
              /\ \E e \in 1..Len(calls[i].result.v.errors.v) :
                     calls[i].result.v.errors.v[e] = SENDFN_NOT_A_PROMISE
    /\ thrown = {}
    /\ inflight = {}

\* no element occurs twice
NoDuplicate(arr) == \A i, j \in 1..Len(arr) : arr[i] = arr[j] => i = j

\* C25: the KeyRegistry holds no key twice, registering a key it already holds
\* leaves it unchanged, and no operation removes a key from it.
C25_RegistryAppendOnlySet ==
    /\ [](NoDuplicate(eventLogsAtom))
    /\ [][/\ Range(eventLogsAtom) \subseteq Range(eventLogsAtom')
          /\ (SeqIncludes(eventLogsAtom, senderKey) /\ (LoggerRender \/ SenderRender)) =>
                 eventLogsAtom' = eventLogsAtom]_vars

\* the buffers of every key but key are as they were
OtherBuffersUnchanged(key) ==
    \A a \in AtomKeys : a[1] # key => eventLogPendingSend'[a] = eventLogPendingSend[a]

\* C26: an operation on one key (log, send, a send completion with any
\* outcome, clear) leaves both buffers of every other key as they were, and a
\* log() on another key leaves the buffers and the SenderState of the
\* controller's key as they were.
C26_KeyIndependence ==
    [][/\ (\/ SenderLog \/ SenderSend(FALSE) \/ SenderSend(TRUE) \/ SenderClear
           \/ \E m \in inflight, data \in KeysResolveValues : SendResolves(m, data)
           \/ \E m \in inflight : SendRejects(m)) => OtherBuffersUnchanged(senderKey)
       /\ OtherLoggerLog =>
              /\ OtherBuffersUnchanged(otherKey)
              /\ UNCHANGED <<mutation, inflight>>]_vars

\* C26 witness: the other key's buffer holds a record, and the controller has
\* logged, delivered a batch of records and is idle with both buffers empty.
C26_Witness ==
    /\ Len(eventLogPendingSend[generateEventLogAtomKey(otherKey, FALSE)].v) > 0
    /\ \E d \in delivered : Len(d.variables) > 0
    /\ active = <<>>
    /\ staging = <<>>
    /\ ~Sending

\* C27 as claimed: driving is exactly the keys of the orchestrator that are not
\* paused and jammed exactly those that are paused, so the two are disjoint and
\* together they are the keys.
C27_Partition ==
    driver.mounted =>
        /\ Range(driving(driver)) = TrackedKeys \ Range(driver.eventLogsPaused)
        /\ Range(jammed(driver)) = TrackedKeys \cap Range(driver.eventLogsPaused)
        /\ Range(driving(driver)) \cap Range(jammed(driver)) = {}
        /\ Range(driving(driver)) \cup Range(jammed(driver)) = TrackedKeys

\* C27 as amended: driving is exactly the keys of the orchestrator that are not
\* paused and jammed is the whole PausedSet as the render read it, whether or not
\* the orchestrator drives the key; the two are disjoint, together they cover
\* the keys, and the keys that are not in driving are in jammed.
C27_DrivingAndPausedSet ==
    driver.mounted =>
        /\ Range(driving(driver)) = TrackedKeys \ Range(driver.eventLogsPaused)
        /\ jammed(driver) = driver.eventLogsPaused
        /\ Range(driving(driver)) \cap Range(jammed(driver)) = {}
        /\ TrackedKeys \subseteq Range(driving(driver)) \cup Range(jammed(driver))
        /\ TrackedKeys \ Range(driving(driver)) \subseteq Range(jammed(driver))

\* C27 witness: the orchestrator has rendered the current atoms; one of its keys
\* is driving, one is jammed, and a key it does not drive is jammed too.
C27_Witness ==
    /\ Settled
    /\ Len(driving(driver)) > 0
    /\ Range(jammed(driver)) \cap TrackedKeys # {}
    /\ Range(jammed(driver)) \ TrackedKeys # {}

\* the record a step appended to the staging buffer of the logger's key
Appended == LET records == eventLogPendingSend'[tempAtom].v IN records[Len(records)]

\* the code the input supplies: its code property, or the primitive itself
SuppliedCode(event) ==
    IF event.t = "object" /\ Has(event, "code") THEN event.v.code
    ELSE IF event.t \in {"string", "number", "boolean"} THEN event
    ELSE Str(S_unknown)

\* C28: for every raw input to log() the appended record has a code field, equal
\* to the code or the primitive the input supplies, or to 'unknown' when it
\* supplies none.
C28_CodePresent ==
    [][\A event \in RawEvents, moreEventInfo \in MoreEventInfos :
          LoggerLogWith(event, moreEventInfo) =>
              /\ thrown' = thrown
              /\ Has(Appended, "code")
              /\ Appended.v.code = SuppliedCode(event)]_vars

\* C29: the appended record has the engine's values in its top-level time and
\* in metadata.timeUnix, timeISO, path and href, also when the event supplies
\* time or a metadata object with fields of these names, and the other fields
\* of a supplied metadata object are present under metadata.
C29_EngineFieldsWin ==
    [][\A event \in RawEvents, moreEventInfo \in MoreEventInfos :
          LoggerLogWith(event, moreEventInfo) =>
              /\ Has(Appended, "time")
              /\ Appended.v.time = EngineValue("unix")
              /\ Appended.v.metadata.v.timeUnix = EngineValue("unix")
              /\ Appended.v.metadata.v.timeISO = EngineValue("iso")
              /\ Appended.v.metadata.v.path = EngineValue("pathname")
              /\ Appended.v.metadata.v.href = EngineValue("href")
              /\ (Has(event, "metadata") /\ isObject(event.v.metadata)) =>
                     \A f \in DOMAIN Fields(event.v.metadata) \
                               {"time", "timeUnix", "timeISO", "path", "href", "userId"} :
                         /\ Has(Appended.v.metadata, f)
                         /\ Appended.v.metadata.v[f] = event.v.metadata.v[f]]_vars

\* an absent, empty or unsupported key: undefined, null, the empty string, the
\* empty array, a plain object, a function
NoUsableKey(key) ==
    \/ key.t \in {"undefined", "null", "object", "function"}
    \/ key.t \in {"string", "array"} /\ Len(key.v) = 0

\* C30: for every raw key sanitizeRawKey returns a non-empty string of at most
\* 1024 units; for a string longer than that its first 1024 units, and 'default'
\* for an absent, empty or unsupported key.
C30_KeyWellFormed ==
    \A i \in 1..Len(calls) :
        calls[i].fn = "sanitizeRawKey" =>
            LET key == calls[i].arg
                result == calls[i].result.v
            IN  /\ Len(result) >= 1
                /\ Len(result) <= maxKeyLength
                /\ (key.t = "string" /\ Len(key.v) > maxKeyLength) =>
                       result = SubSeq(key.v, 1, maxKeyLength)
                /\ NoUsableKey(key) => result = defaultKey

\* C31: for every key the orchestrator drives, the aggregate read logs[K] can
\* be computed and is the active buffer followed by the staging buffer of K as
\* they are in that state, the sequence the controller of K reports as events.
C31_LogsEqualBuffers ==
    /\ "useLogDriver" \notin thrown
    /\ \A k \in TrackedKeys :
          /\ CanSpread(eventLogPendingSend, k)
          /\ k = senderKey => eventLogsGetter(eventLogPendingSend, k) = active \o staging

\* C32: immediately after a successful send of the controller the staging
\* buffer is the empty sequence, not an undefined value.
C32_StagingEmptied ==
    [][\A m \in inflight :
          (SendResolves(m, Accepted) /\ Observed(m)) =>
              eventLogPendingSend'[tempAtom] = Defined(<<>>)]_vars

\* C33: when the SenderState of a live controller is Sending and the send
\* functions settle (resolving with or without success, or rejecting), its
\* SenderState becomes Idle again, unless the controller is gone by then; the
\* status behind it is never anything but one of the four the mutation reports,
\* of which only loading is Sending.
C33_SendingCompletes ==
    /\ (sender.mounted /\ Sending) ~> (~sender.mounted \/ ~Sending)
    /\ [](mutation.status \in {"idle", "loading", "success", "error"})

\* C33 witness: every send the live controller initiated has settled, the last
\* one by failing, and it is Idle.
C33_Witness ==
    /\ sender.mounted
    /\ sends = MaxSends
    /\ inflight = {}
    /\ mutation.status = "error"

\* C34: a live sending controller has at most one active interval, also after
\* its mount effect has run more than once.
C34_OneTimer == sender.mounted => Cardinality(OwnTimers) <= 1

\* C35: when log(event) is called with an event object that has an info field
\* and no additional info is passed, the info of the stored record is the
\* event's; additional info passed to the deferred log function replaces it.
C35_InfoKept ==
    [][\A event \in RawEvents, moreEventInfo \in MoreEventInfos :
          (LoggerLogWith(event, moreEventInfo) /\ Has(event, "info")) =>
              /\ Has(Appended, "info")
              /\ Appended.v.info = IF moreEventInfo = Undefined THEN event.v.info
                                   ELSE moreEventInfo]_vars

\* C36: once the sends that were in flight when clear() was called have
\* completed, no record that was in the active or the staging buffer before the
\* clear is in readAll.
C36_ClearedStayCleared ==
    \A i \in 1..Len(calls) :
        (calls[i].fn = "clear" /\ inflight = {}) =>
            Codes(active \o staging) \cap calls[i].arg = {}

\* the record of the n-th log() call is in a batch the send function was
\* invoked with
Dispatched(n) ==
    \/ \E m \in inflight : n \in Codes(m.variables)
    \/ \E d \in delivered : n \in Codes(d.variables)

\* C37: with a send function that always resolves {success: true}, fair
\* scheduling and the key never paused, once at least pendingSendMax records have
\* been logged on the key, through the controller or through simple loggers,
\* each of them is eventually in a batch the send function is invoked with.
C37_EventuallyDispatched ==
    \A n \in 1..MaxLog :
        (logged >= pendingSendMax /\ n <= logged /\ thrown = {}) ~> Dispatched(n)

\* the argument of jam() or drive() names at least one key
NamesKeys(arg) == arg.t \in {"string", "array"} /\ Len(arg.v) > 0

\* C38: jam(A) and drive(B) with disjoint sets of registered keys do not undo
\* each other, in either order and without a render in between: drive(B) leaves
\* no key of B paused and every other paused key paused, and jam(A) pauses the
\* keys of A and changes nothing else.
C38_JamDriveDisjoint ==
    [][/\ \A unpauseTheseKeys \in DriveArgs :
              (Drive(unpauseTheseKeys) /\ NamesKeys(unpauseTheseKeys)) =>
                  /\ ArgKeys(unpauseTheseKeys) \cap Range(eventLogsPausedAtom') = {}
                  /\ Range(eventLogsPausedAtom) \ ArgKeys(unpauseTheseKeys)
                         \subseteq Range(eventLogsPausedAtom')
       /\ \A deactivate \in JamArgs, prevent \in Prevents :
              (Jam(deactivate, prevent) /\ NamesKeys(deactivate)) =>
                  Range(eventLogsPausedAtom') =
                      Range(eventLogsPausedAtom) \cup
                          (ArgKeys(deactivate) \cap Range(eventLogsAtom))]_vars

\* C39: the PausedSet holds no key twice, and every key in it is in the
\* KeyRegistry.
C39_PausedWithinRegistry ==
    /\ NoDuplicate(eventLogsPausedAtom)
    /\ Range(eventLogsPausedAtom) \subseteq Range(eventLogsAtom)

\* C39 witness: an orchestrator whose list of driver keys names a key twice has
\* jammed; the PausedSet holds that key once, beside another key.
C39_Witness ==
    /\ ~NoDuplicate(logDriversAtom)
    /\ Len(eventLogsPausedAtom) >= 2
    /\ \E i \in 1..Len(eventLogsPausedAtom) : SeqIncludes(logDriversAtom, eventLogsPausedAtom[i])

====
